---- MODULE Spec2Model ----
(***************************************************************************)
(* Results.plot of ultralytics-ver2/engine/results.py: the landmark pass   *)
(* over the detections, the process-wide VLA history, the FCW label pass,  *)
(* the lane corridor overlay and the lane departure decision.              *)
(*                                                                         *)
(* Detections are numbered 1..n in detector output order (the source's     *)
(* original index i is position i+1).  A Python None is the empty tuple.   *)
(***************************************************************************)
EXTENDS Integers, Sequences, FiniteSets, TLC

VARIABLES
    HISTORY_VLA_pt,   \* the module global of results.py line 21
    pc,               \* "idle": no call in progress; "done": plot has run
    frame,            \* the Results object plot was called on, and its arguments
    Final_pt,         \* Final_VLA_pt .. Final_DUA_ut_pt, by landmark kind
    ADAS_Key_Points,  \* (p1..p5), each (l_p, r_p)
    vl,               \* (l_vl, r_vl)
    vp,               \* the vanishing point
    im,               \* TRUE when the local im is not None
    log,              \* the drawing calls made by the call, in order
    raised,           \* TRUE when a drawing call raised and plot was left
    histBefore,       \* HISTORY_VLA_pt when the call started
    lastResolved,     \* the VLA resolved by the latest frame that resolved one
    input,            \* the argument of a constructor or property under study
    output,           \* what that constructor or property produced
    cache,            \* the lru_cache of each cached property
    computed,         \* how often each property body ran, by instance
    objs,             \* the live BaseTensor instances
    last              \* the latest transfer call: receiver, operation, result

plotVars == <<HISTORY_VLA_pt, pc, frame, Final_pt, ADAS_Key_Points, vl, vp, im,
              log, raised, histBefore, lastResolved>>

dataVars == <<input, output, cache, computed, objs, last>>

vars == <<plotVars, dataVars>>

----------------------------------------------------------------------------
(* Bounds *)

\* detections per frame
MaxDet == 3
\* largest corner x coordinate of the frames of the departure decision
MaxX == 8

----------------------------------------------------------------------------
(* Values *)

None == <<>>

\* the absent quadruple (9999,9999,9999,9999)
Sentinel == <<9999, 9999, 9999, 9999>>

\* the seven slots box_label returns, in the order of the unpacking
Kinds == {"VLA", "DCA", "VPA", "DUA_d", "DUA_m", "DUA_u", "DUA_ut"}

\* the landmark behind each key point pair p1..p5
KeyKinds == <<"DCA", "DUA_d", "DUA_m", "DUA_u", "DUA_ut">>

\* Python int(a / b) for b > 0: truncation toward zero
TruncDiv(a, b) == IF a >= 0 THEN a \div b ELSE 0 - ((0 - a) \div b)

Abs(a) == IF a >= 0 THEN a ELSE 0 - a

\* pt[0] != 9999
IsSet(pt) == pt[1] # 9999

DRAW_MIDDLE_LINE == TRUE
DRAW_LEFT_LINE == TRUE
DRAW_RIGHT_LINE == TRUE
DRAW_CENTER_LINE == TRUE
DRAW_LDWS == TRUE
DRAW_VANISH_LINE == TRUE
DRAW_VANISH_POINT == FALSE

----------------------------------------------------------------------------
(* What box_label returns for one detection: a slot per landmark kind.    *)

KindRow == [VLA |-> 5, DCA |-> 0, VPA |-> 6, DUA_d |-> 1, DUA_m |-> 2,
            DUA_u |-> 3, DUA_ut |-> 4]

Variants == {1, 2}

\* a rectangle of kind k inside a 640 x 480 frame
Rect(k, v) == <<40 + 20 * KindRow[k] + 3 * v, 440 - 40 * KindRow[k] - 5 * v,
                600 - 20 * KindRow[k] - 6 * v, 460 - 40 * KindRow[k] - 5 * v>>

\* a rectangle whose left edge is at x = 9999 (a frame more than 9999 wide)
WideRect(k) == <<9999, 440 - 40 * KindRow[k], 10400, 460 - 40 * KindRow[k]>>

\* a rectangle whose top edge is at y = 9999 (a frame more than 9999 high)
TallRect(k) == <<40 + 20 * KindRow[k], 9999, 600 - 20 * KindRow[k], 10020>>

\* a centre divider far to the left of the centre of a 640 wide frame
OffCentre == <<0, 440, 200, 460>>

NoLandmark == [k \in Kinds |-> Sentinel]

Single(k, r) == [j \in Kinds |-> IF j = k THEN r ELSE Sentinel]

Several(S, v) == [j \in Kinds |-> IF j \in S THEN Rect(j, v) ELSE Sentinel]

\* one landmark at most, as a detection of one class yields
TieOutputs ==
    {NoLandmark}
    \cup {Single(k, Rect(k, v)) : k \in Kinds, v \in Variants}
    \cup {Single(k, WideRect(k)) : k \in {"VLA", "DCA"}}
    \cup {Single("DCA", TallRect("DCA"))}

\* any subset of the seven kinds at once
SubsetOutputs == {Several(S, 1) : S \in SUBSET Kinds}

AuxOutputs == {NoLandmark, Several(Kinds, 1),
               [Several(Kinds, 1) EXCEPT !["DCA"] = OffCentre]}

RECURSIVE SeqsUpTo(_, _)
SeqsUpTo(S, n) ==
    IF n = 0 THEN {<<>>}
    ELSE LET shorter == SeqsUpTo(S, n - 1)
         IN shorter \cup {Append(s, x) : s \in {t \in shorter : Len(t) = n - 1}, x \in S}

(* The frames plot is called on.  dets[i] is what box_label returns for   *)
(* detection i; show_boxes, masks, probs and pose are the guards of the   *)
(* optional passes; w and h are im.shape[1] and im.shape[0].              *)

Frame(dets, show_boxes, masks, probs, pose, w, h) ==
    [dets |-> dets, show_boxes |-> show_boxes, masks |-> masks, probs |-> probs,
     pose |-> pose, w |-> w, h |-> h]

NoFrame == Frame(<<>>, FALSE, FALSE, FALSE, FALSE, 0, 0)

HasWide(dets) == \E i \in 1..Len(dets) : \E k \in Kinds : dets[i][k] = WideRect(k)
HasTall(dets) == \E i \in 1..Len(dets) : \E k \in Kinds : dets[i][k] = TallRect(k)
WidthOf(dets) == IF HasWide(dets) THEN 12000 ELSE 640
HeightOf(dets) == IF HasTall(dets) THEN 12000 ELSE 480

\* detections of one class each, boxes shown
TieFrames ==
    {Frame(d, TRUE, FALSE, FALSE, FALSE, WidthOf(d), HeightOf(d)) :
        d \in SeqsUpTo(TieOutputs, MaxDet)}

\* one detection supplying any subset of the landmarks
CorridorFrames ==
    {Frame(<<o>>, TRUE, FALSE, FALSE, FALSE, 640, 480) : o \in SubsetOutputs}

\* every combination of the optional passes
AuxFrames ==
    {Frame(d, sb, m, p, k, 640, 480) :
        d \in SeqsUpTo(AuxOutputs, MaxDet), sb \in BOOLEAN, m \in BOOLEAN,
        p \in BOOLEAN, k \in BOOLEAN}

\* one centre divider detection with any corners, in a frame of any width
LDWSFrames ==
    {Frame(<<Single("DCA", <<l, 5, r, 7>>)>>, TRUE, FALSE, FALSE, FALSE, w, 10) :
        l \in (0 - MaxX)..MaxX, r \in (0 - MaxX)..MaxX, w \in 1..(2 * MaxX)}
    \cup {Frame(<<Single("DCA", <<l, 400, r, 400>>)>>, TRUE, FALSE, FALSE, FALSE, 640, 480) :
        l \in {100, 200}, r \in {340, 440}}

Frames == TieFrames \cup CorridorFrames \cup AuxFrames \cup LDWSFrames

----------------------------------------------------------------------------
(* Results.plot, lines 262-296: the landmark pass.                         *)

\* "if X_pt[0]!=9999: Final_X_pt = X_pt", for one kind
Resolve(cur, pt) == IF IsSet(pt) THEN pt ELSE cur

\* mutant: the history is written outside the test, absent or not
UpdateHistoryAlways(hist, VLA_pt) == VLA_pt

\* mutant: the history keeps the first rectangle it was ever given
UpdateHistoryOnce(hist, VLA_pt) == IF hist = None /\ IsSet(VLA_pt) THEN VLA_pt ELSE hist

\* "if VLA_pt[0]!=9999: ... HISTORY_VLA_pt = VLA_pt"
UpdateHistory(hist, VLA_pt) == IF IsSet(VLA_pt) THEN VLA_pt ELSE hist

\* the locals before the loop
LabelStart(hist) == [Final |-> [k \in Kinds |-> Sentinel], hist |-> hist, im |-> FALSE]

\* one iteration of "for d in reversed(pred_boxes)": out is box_label's return
LabelStep(acc, out) ==
    [Final |-> [k \in Kinds |-> Resolve(acc.Final[k], out[k])],
     hist  |-> UpdateHistory(acc.hist, out["VLA"]),
     im    |-> TRUE]

\* the iterations for detections i, i-1, .., 1, in that order
RECURSIVE LabelLoop(_, _, _)
LabelLoop(dets, i, acc) ==
    IF i = 0 THEN acc ELSE LabelLoop(dets, i - 1, LabelStep(acc, dets[i]))

\* mutant: the boxes argument of plot is not consulted
BoxesShownIgnoreFlag(f) == Len(f.dets) > 0

\* "if pred_boxes and show_boxes": an empty Boxes is falsy
BoxesShown(f) == Len(f.dets) > 0 /\ f.show_boxes

LabelPass(f, hist) ==
    IF BoxesShown(f) THEN LabelLoop(f.dets, Len(f.dets), LabelStart(hist))
    ELSE LabelStart(hist)

----------------------------------------------------------------------------
(* Lines 299-354: the points derived from the resolved landmarks.          *)

\* (l_p, r_p) of one landmark: its two corners, or (None, None)
Corners(pt) ==
    IF IsSet(pt) THEN << <<pt[1], pt[2]>>, <<pt[3], pt[4]>> >> ELSE <<None, None>>

KeyPoints(Final) == [i \in 1..5 |-> Corners(Final[KeyKinds[i]])]

VanishLine(Final) == Corners(Final["VLA"])

\* mutant: the x of the vanishing point is taken from VLA, not VPA
VanishPointFromVLA(Final) ==
    IF IsSet(Final["VLA"]) /\ IsSet(Final["VPA"])
    THEN <<TruncDiv(Final["VLA"][1] + Final["VLA"][3], 2), Final["VLA"][2]>>
    ELSE None

\* lines 336-337
VanishPoint(Final) ==
    IF IsSet(Final["VLA"]) /\ IsSet(Final["VPA"])
    THEN <<TruncDiv(Final["VPA"][1] + Final["VPA"][3], 2), Final["VLA"][2]>>
    ELSE None

\* m_p: (int((x1+x2)/2.0), y2) of a landmark
MidPoint(pt) == <<TruncDiv(pt[1] + pt[3], 2), pt[4]>>

----------------------------------------------------------------------------
(* The drawing calls.  A call is recorded with its name, the detection or  *)
(* segment number it is for, and its two arguments.                        *)

Op(name, i, a, b) == [op |-> name, i |-> i, a |-> a, b |-> b]

\* lines 254-260
MaskOps(f) == IF f.masks THEN <<Op("masks", 0, None, None)>> ELSE <<>>

\* mutant: the loop runs over pred_boxes, not reversed(pred_boxes)
LabelOpsForward(f) ==
    IF BoxesShown(f)
    THEN [j \in 1..Len(f.dets) |-> Op("box_label", j, None, None)]
    ELSE <<>>

\* lines 272-280: box_label for detections n, n-1, .., 1
LabelOps(f) ==
    IF BoxesShown(f)
    THEN [j \in 1..Len(f.dets) |-> Op("box_label", Len(f.dets) + 1 - j, None, None)]
    ELSE <<>>

\* mutant: the test "HISTORY_VLA_pt is not None" is missing
FCWSOpsNoGuard(f, hist, kps) ==
    IF BoxesShown(f)
    THEN [j \in 1..Len(f.dets) |->
             Op("box_FCWS_label", Len(f.dets) + 1 - j, kps,
                IF hist = None THEN 0 ELSE hist[2])]
    ELSE <<>>

\* lines 355-361: box_FCWS_label for detections n, n-1, .., 1
FCWSOps(f, hist, kps) ==
    IF BoxesShown(f) /\ hist # None
    THEN [j \in 1..Len(f.dets) |->
             Op("box_FCWS_label", Len(f.dets) + 1 - j, kps, hist[2])]
    ELSE <<>>

\* lines 371-373
VanishOps(l_vl, r_vl) ==
    IF DRAW_VANISH_LINE /\ l_vl # None /\ r_vl # None
    THEN <<Op("vanish_line", 0, l_vl, r_vl)>> ELSE <<>>

\* lines 381-413: segment i of the left line, then of the middle line
LeftMiddleSeg(Final, kps, i) ==
    IF kps[i][1] # None /\ kps[i + 1][1] # None
    THEN (IF DRAW_LEFT_LINE
          THEN <<Op("left", i, kps[i][1], kps[i + 1][1])>> ELSE <<>>)
         \o
         (IF DRAW_MIDDLE_LINE
          THEN <<Op("middle", i, MidPoint(Final[KeyKinds[i]]),
                                 MidPoint(Final[KeyKinds[i + 1]]))>> ELSE <<>>)
    ELSE <<>>

\* lines 414-432
LeftMiddleVP(Final, kps, v) ==
    IF ~DRAW_VANISH_POINT THEN <<>>
    ELSE IF kps[5][1] # None /\ v # None
    THEN <<Op("left", 5, kps[5][1], v), Op("middle", 5, MidPoint(Final["DUA_ut"]), v)>>
    ELSE IF kps[5][1] = None /\ v # None /\ kps[4][1] # None
    THEN <<Op("left", 5, kps[4][1], v), Op("middle", 5, MidPoint(Final["DUA_u"]), v)>>
    ELSE <<>>

\* mutant: "or" in place of "and" between the two endpoint tests
RightSegEither(kps, i) ==
    IF DRAW_RIGHT_LINE /\ (kps[i][2] # None \/ kps[i + 1][2] # None)
    THEN <<Op("right", i, kps[i][2], kps[i + 1][2])>> ELSE <<>>

\* lines 442-450: segment i of the right line
RightSeg(kps, i) ==
    IF DRAW_RIGHT_LINE /\ kps[i][2] # None /\ kps[i + 1][2] # None
    THEN <<Op("right", i, kps[i][2], kps[i + 1][2])>> ELSE <<>>

\* lines 451-455
RightVP(kps, v) ==
    IF ~DRAW_VANISH_POINT THEN <<>>
    ELSE IF kps[5][2] # None /\ v # None THEN <<Op("right", 5, kps[5][2], v)>>
    ELSE IF kps[5][2] = None /\ v # None /\ kps[4][2] # None
    THEN <<Op("right", 5, kps[4][2], v)>>
    ELSE <<>>

\* lines 456-465; h*0.80 and h*0.99 are exact enough for int() at the heights used
CenterOps(imSet, w, h) ==
    IF imSet /\ DRAW_CENTER_LINE
    THEN <<Op("center_line", 0, <<TruncDiv(w, 2), TruncDiv(h * 80, 100)>>,
                                <<TruncDiv(w, 2), TruncDiv(h * 99, 100)>>)>>
    ELSE <<>>

\* mutant: ">=" in place of ">"
DepartureAtLeast(l_p1, r_p1, w) ==
    LET LD_TH == TruncDiv(2 * Abs(r_p1[1] - l_p1[1]), 7)
        driver_x == TruncDiv(l_p1[1] + r_p1[1], 2)
        departure_distance == Abs(driver_x - TruncDiv(w, 2))
    IN departure_distance >= LD_TH

\* lines 472-475: LD_TH, driver_x, departure_distance and the comparison
Departure(l_p1, r_p1, w) ==
    LET LD_TH == TruncDiv(2 * Abs(r_p1[1] - l_p1[1]), 7)
        driver_x == TruncDiv(l_p1[1] + r_p1[1], 2)
        departure_distance == Abs(driver_x - TruncDiv(w, 2))
    IN departure_distance > LD_TH

\* lines 469-477
CaptionOps(imSet, kps, w, h) ==
    IF imSet /\ DRAW_LDWS /\ kps[1][1] # None /\ kps[1][2] # None
             /\ Departure(kps[1][1], kps[1][2], w)
    THEN <<Op("caption", 0, <<TruncDiv(w, 8), TruncDiv(h, 4)>>, None)>>
    ELSE <<>>

\* lines 480-483
TextOps(f) == IF f.probs THEN <<Op("text", 0, None, None)>> ELSE <<>>

\* lines 486-488: one keypoint set per detection, drawn last to first
KptsOps(f) ==
    IF f.pose
    THEN [j \in 1..Len(f.dets) |-> Op("kpts", Len(f.dets) + 1 - j, None, None)]
    ELSE <<>>

\* mutant: the vanish line falls back on the history when the frame has no VLA
OverlayOpsHistory(f, r) ==
    LET kps == KeyPoints(r.Final)
        v   == VanishPoint(r.Final)
        vln == IF IsSet(r.Final["VLA"]) \/ r.hist = None
               THEN VanishLine(r.Final) ELSE Corners(r.hist)
    IN VanishOps(vln[1], vln[2])
       \o LeftMiddleSeg(r.Final, kps, 1) \o LeftMiddleSeg(r.Final, kps, 2)
       \o LeftMiddleSeg(r.Final, kps, 3) \o LeftMiddleSeg(r.Final, kps, 4)
       \o LeftMiddleVP(r.Final, kps, v)
       \o RightSeg(kps, 1) \o RightSeg(kps, 2) \o RightSeg(kps, 3) \o RightSeg(kps, 4)
       \o RightVP(kps, v)
       \o CenterOps(r.im, f.w, f.h)
       \o CaptionOps(r.im, kps, f.w, f.h)

\* lines 370-477: the cv2 calls on im, in the order of the source
OverlayOps(f, r) ==
    LET kps == KeyPoints(r.Final)
        v   == VanishPoint(r.Final)
        vln == VanishLine(r.Final)
    IN VanishOps(vln[1], vln[2])
       \o LeftMiddleSeg(r.Final, kps, 1) \o LeftMiddleSeg(r.Final, kps, 2)
       \o LeftMiddleSeg(r.Final, kps, 3) \o LeftMiddleSeg(r.Final, kps, 4)
       \o LeftMiddleVP(r.Final, kps, v)
       \o RightSeg(kps, 1) \o RightSeg(kps, 2) \o RightSeg(kps, 3) \o RightSeg(kps, 4)
       \o RightVP(kps, v)
       \o CenterOps(r.im, f.w, f.h)
       \o CaptionOps(r.im, kps, f.w, f.h)

\* mutant: the FCW pass runs before the landmark pass
DetectionOpsFCWFirst(f, r) ==
    MaskOps(f) \o FCWSOps(f, r.hist, KeyPoints(r.Final)) \o LabelOps(f)

\* lines 253-361: the calls made before the overlay
DetectionOps(f, r) ==
    MaskOps(f) \o LabelOps(f) \o FCWSOps(f, r.hist, KeyPoints(r.Final))

\* lines 479-488: the calls made after the overlay
TrailingOps(f) == TextOps(f) \o KptsOps(f)

\* The calls of one plot.  fail = 0: every drawing call returns.  fail = j > 0:
\* the j-th cv2 call on im raises; nothing in plot catches it, so the call is
\* left there and nothing after it runs.
PlotOps(f, r, fail) ==
    IF fail = 0 \/ fail > Len(OverlayOps(f, r))
    THEN DetectionOps(f, r) \o OverlayOps(f, r) \o TrailingOps(f)
    ELSE DetectionOps(f, r) \o SubSeq(OverlayOps(f, r), 1, fail)

----------------------------------------------------------------------------
(* The state machine: plot is called on one frame after another.           *)

\* no instance of the tensor classes is under study
NoData ==
    /\ input = None
    /\ output = None
    /\ cache = None
    /\ computed = None
    /\ objs = <<>>
    /\ last = None

PlotInit ==
    /\ HISTORY_VLA_pt = None
    /\ pc = "idle"
    /\ frame = NoFrame
    /\ Final_pt = [k \in Kinds |-> Sentinel]
    /\ ADAS_Key_Points = [i \in 1..5 |-> <<None, None>>]
    /\ vl = <<None, None>>
    /\ vp = None
    /\ im = FALSE
    /\ log = <<>>
    /\ raised = FALSE
    /\ histBefore = None
    /\ lastResolved = None

Init == PlotInit /\ NoData

\* Results.plot on frame f, lines 187-509
PlotCall(f, fail) ==
    /\ pc = "idle"
    /\ LET r == LabelPass(f, HISTORY_VLA_pt)
       IN /\ HISTORY_VLA_pt' = r.hist
          /\ Final_pt' = r.Final
          /\ im' = r.im
          /\ ADAS_Key_Points' = KeyPoints(r.Final)
          /\ vl' = VanishLine(r.Final)
          /\ vp' = VanishPoint(r.Final)
          /\ log' = PlotOps(f, r, fail)
          /\ raised' = (fail > 0 /\ fail <= Len(OverlayOps(f, r)))
          /\ lastResolved' = IF r.Final["VLA"] # Sentinel THEN r.Final["VLA"]
                             ELSE lastResolved
    /\ histBefore' = HISTORY_VLA_pt
    /\ frame' = f
    /\ pc' = "done"
    /\ UNCHANGED dataVars

Plot == pc = "idle" /\ \E f \in Frames : PlotCall(f, 0)

\* plot returns (or its exception leaves it): the locals are gone, the global stays
PlotReturn ==
    /\ pc = "done"
    /\ pc' = "idle"
    /\ frame' = NoFrame
    /\ Final_pt' = [k \in Kinds |-> Sentinel]
    /\ ADAS_Key_Points' = [i \in 1..5 |-> <<None, None>>]
    /\ vl' = <<None, None>>
    /\ vp' = None
    /\ im' = FALSE
    /\ log' = <<>>
    /\ raised' = FALSE
    /\ histBefore' = None
    /\ UNCHANGED <<HISTORY_VLA_pt, lastResolved>>
    /\ UNCHANGED dataVars

Next == Plot \/ PlotReturn

Spec == Init /\ [][Next]_vars

\* The same, where a cv2 call on im may raise.
FailFrames == CorridorFrames \cup AuxFrames

PlotFail ==
    /\ pc = "idle"
    /\ \E f \in FailFrames :
          \E j \in 0..Len(OverlayOps(f, LabelPass(f, HISTORY_VLA_pt))) : PlotCall(f, j)

NextFail == PlotFail \/ PlotReturn

SpecFail == Init /\ [][NextFail]_vars

----------------------------------------------------------------------------
(* Properties *)

Done == pc = "done"

\* the positions of the log holding a call of the given name
Calls(name) == {j \in 1..Len(log) : log[j].op = name}

\* the detections a call of the given name was made for
CalledFor(name) == {log[j].i : j \in Calls(name)}

\* a returned slot supplies its kind when it is not the absent quadruple
Supplies(out, k) == out[k] # Sentinel

Suppliers(dets, k) == {i \in 1..Len(dets) : Supplies(dets[i], k)}

LowestSupplier(dets, k) ==
    IF Suppliers(dets, k) = {} THEN Sentinel
    ELSE dets[CHOOSE i \in Suppliers(dets, k) : \A j \in Suppliers(dets, k) : i <= j][k]

\* C1: after the box_label pass every landmark kind holds the slot of the
\* lowest-index detection that supplies it, and the absent quadruple when no
\* detection supplies it.
C1_LowestIndexWins ==
    (Done /\ BoxesShown(frame)) =>
        \A k \in Kinds : Final_pt[k] = LowestSupplier(frame.dets, k)

\* C2: after a plot call the history is the VLA the frame resolved, when it
\* resolved one, and is what it was before the call otherwise.
C2_HistoryUpdate ==
    Done =>
        IF Final_pt["VLA"] # Sentinel
        THEN HISTORY_VLA_pt = Final_pt["VLA"]
        ELSE HISTORY_VLA_pt = histBefore

\* a frame where two detections supply different VLA rectangles replaces an
\* older history by the lower-index one
C2_Witness ==
    /\ Done
    /\ histBefore # None
    /\ Cardinality({frame.dets[i]["VLA"] : i \in Suppliers(frame.dets, "VLA")}) = 2
    /\ Final_pt["VLA"] # histBefore
    /\ HISTORY_VLA_pt = LowestSupplier(frame.dets, "VLA")

\* C3: every box_FCWS_label call of a frame gets as reference row the y1 of
\* the VLA resolved by the latest frame, this one included, that resolved one.
C3_ReferenceRow ==
    Done =>
        \A j \in Calls("box_FCWS_label") :
            lastResolved # None /\ log[j].b = lastResolved[2]

\* a frame that resolves no VLA makes its FCW calls with the row of the VLA an
\* earlier frame resolved
C3_Witness ==
    /\ Done
    /\ Final_pt["VLA"] = Sentinel
    /\ histBefore # None
    /\ Calls("box_FCWS_label") # {}
    /\ \A j \in Calls("box_FCWS_label") : log[j].b = histBefore[2]

\* C4: a frame plotted with no history and resolving no VLA makes no
\* box_FCWS_label call; a frame plotted with boxes shown and a history value
\* makes one for every detection.
C4_FCWPass ==
    Done =>
        /\ (histBefore = None /\ Final_pt["VLA"] = Sentinel)
               => Calls("box_FCWS_label") = {}
        /\ (HISTORY_VLA_pt # None /\ frame.show_boxes)
               => CalledFor("box_FCWS_label") = 1..Len(frame.dets)

\* a first frame with two detections, one a centre divider, and no VLA: the
\* landmark pass runs and the FCW pass is skipped
C4_Witness ==
    /\ Done
    /\ histBefore = None
    /\ HISTORY_VLA_pt = None
    /\ Len(frame.dets) >= 2
    /\ CalledFor("box_label") = 1..Len(frame.dets)
    /\ Final_pt["DCA"] # Sentinel
    /\ Calls("box_FCWS_label") = {}

P1Present == ADAS_Key_Points[1][1] # None /\ ADAS_Key_Points[1][2] # None
l_p1x == ADAS_Key_Points[1][1][1]
r_p1x == ADAS_Key_Points[1][2][1]

\* C5 as stated: the caption is rendered exactly when p1 is present and
\* |(l.x + r.x)/2 - w/2| > |r.x - l.x| / 3.5 in exact arithmetic, that is,
\* 7 |l.x + r.x - w| > 4 |r.x - l.x|.
C5_DepartureExact ==
    Done =>
        (Calls("caption") # {}
            <=> (P1Present /\ 7 * Abs(l_p1x + r_p1x - frame.w) > 4 * Abs(r_p1x - l_p1x)))

\* C5 amended: the caption is rendered exactly when p1 is present and
\* |int((l.x + r.x)/2) - int(w/2)| > |r.x - l.x| / 3.5, the lane centre and
\* the frame centre each truncated toward zero to an integer first.
C5_DepartureTruncated ==
    Done =>
        (Calls("caption") # {}
            <=> (P1Present
                 /\ 7 * Abs(TruncDiv(l_p1x + r_p1x, 2) - TruncDiv(frame.w, 2))
                        > 2 * Abs(r_p1x - l_p1x)))

\* a frame whose caption is rendered although the untruncated comparison
\* gives no warning
C5_Witness ==
    /\ Done
    /\ P1Present
    /\ Calls("caption") # {}
    /\ ~(7 * Abs(l_p1x + r_p1x - frame.w) > 4 * Abs(r_p1x - l_p1x))

\* C6: every plot call draws the segment at x = w/2 from 80% to 99% of the
\* frame height, whatever the detections and whether boxes are shown.
C6_CenterLineAlways ==
    Done =>
        \E j \in Calls("center_line") :
            /\ log[j].a = <<TruncDiv(frame.w, 2), TruncDiv(frame.h * 80, 100)>>
            /\ log[j].b = <<TruncDiv(frame.w, 2), TruncDiv(frame.h * 99, 100)>>

KPPresent(i) == ADAS_Key_Points[i][1] # None /\ ADAS_Key_Points[i][2] # None

SegDrawn(line, i) == \E j \in Calls(line) : log[j].i = i

\* C7: segment i of the left, the right and the middle line is drawn exactly
\* when p_i and p_(i+1) are both present, and no drawn segment has an absent
\* endpoint.
C7_PartialCorridor ==
    Done =>
        /\ \A i \in 1..4 : \A line \in {"left", "right", "middle"} :
               SegDrawn(line, i) <=> (KPPresent(i) /\ KPPresent(i + 1))
        /\ \A line \in {"left", "right", "middle"} : \A j \in Calls(line) :
               log[j].a # None /\ log[j].b # None
        /\ \A j \in Calls("left") :
               log[j].a = ADAS_Key_Points[log[j].i][1]
               /\ log[j].b = ADAS_Key_Points[log[j].i + 1][1]
        /\ \A j \in Calls("right") :
               log[j].a = ADAS_Key_Points[log[j].i][2]
               /\ log[j].b = ADAS_Key_Points[log[j].i + 1][2]

\* p3 absent and the other four present: segments 1 and 4 are drawn, 2 and 3
\* are not
C7_Witness ==
    /\ Done
    /\ KPPresent(1) /\ KPPresent(2) /\ ~KPPresent(3) /\ KPPresent(4) /\ KPPresent(5)
    /\ SegDrawn("left", 1) /\ SegDrawn("middle", 4) /\ SegDrawn("right", 4)
    /\ ~SegDrawn("left", 2) /\ ~SegDrawn("right", 3)

\* C8: a slot is left out only when it is the quadruple (9999,9999,9999,9999):
\* when some detection returns another rectangle for a kind, that kind does
\* not resolve to absent.
C8_SentinelQuadruple ==
    (Done /\ BoxesShown(frame)) =>
        \A k \in Kinds :
            Suppliers(frame.dets, k) # {} => Final_pt[k] # Sentinel

\* C9: when one cv2 call of the overlay raises, every segment whose endpoints
\* are present, and the center line, are still attempted.
C9_FailureLocal ==
    (Done /\ raised) =>
        /\ \A i \in 1..4 : \A line \in {"left", "right", "middle"} :
               (KPPresent(i) /\ KPPresent(i + 1)) => SegDrawn(line, i)
        /\ im => Calls("center_line") # {}

Phase == [masks |-> 1, box_label |-> 2, box_FCWS_label |-> 3, vanish_line |-> 4,
          left |-> 5, middle |-> 5, right |-> 5, center_line |-> 6, caption |-> 7,
          text |-> 8, kpts |-> 9]

\* C10: the calls of one plot come in the order masks, box_label calls,
\* box_FCWS_label calls, vanish line, left/middle/right segments, center line,
\* departure caption, (classification text,) pose keypoints; every box_label
\* call comes before the first box_FCWS_label call.
C10_DrawingOrder ==
    Done =>
        \A i \in 1..Len(log) : \A j \in 1..Len(log) :
            i < j => Phase[log[i].op] <= Phase[log[j].op]

\* a frame in which every step of the order is taken
C10_Witness ==
    /\ Done
    /\ Len(frame.dets) >= 2
    /\ \A name \in {"masks", "box_label", "box_FCWS_label", "vanish_line", "left",
                    "middle", "right", "center_line", "caption", "kpts"} :
           Calls(name) # {}
    /\ Cardinality(Calls("box_FCWS_label")) = Len(frame.dets)

\* C14: the vanishing point is defined exactly when the frame resolved both
\* VLA and VPA, and is then (floor((VPA.x1 + VPA.x2)/2), VLA.y1); the vanish
\* line endpoints are defined exactly when the frame resolved VLA, and are
\* (VLA.x1, VLA.y1) and (VLA.x2, VLA.y2).
C14_VanishingPoint ==
    Done =>
        /\ vp # None <=> (Final_pt["VLA"] # Sentinel /\ Final_pt["VPA"] # Sentinel)
        /\ vp # None =>
               vp = <<(Final_pt["VPA"][1] + Final_pt["VPA"][3]) \div 2, Final_pt["VLA"][2]>>
        /\ (vl[1] # None /\ vl[2] # None) <=> Final_pt["VLA"] # Sentinel
        /\ (vl[1] = None <=> vl[2] = None)
        /\ vl[1] # None =>
               /\ vl[1] = <<Final_pt["VLA"][1], Final_pt["VLA"][2]>>
               /\ vl[2] = <<Final_pt["VLA"][3], Final_pt["VLA"][4]>>

\* VLA and VPA come from two different detections, and the midpoint of VPA is
\* not an integer
C14_Witness ==
    /\ Done
    /\ vp # None
    /\ (Final_pt["VPA"][1] + Final_pt["VPA"][3]) % 2 = 1
    /\ \E i \in 1..Len(frame.dets) : \E j \in 1..Len(frame.dets) :
           /\ i # j
           /\ frame.dets[i]["VLA"] = Final_pt["VLA"]
           /\ frame.dets[j]["VPA"] = Final_pt["VPA"]
           /\ frame.dets[i]["VPA"] = Sentinel

\* the calls of the given name, in the order they were made
CallSeq(name) == SelectSeq(log, LAMBDA o : o.op = name)

\* one call per detection, highest index first
ReverseOnce(calls, n) ==
    /\ Len(calls) = n
    /\ \A j \in 1..n : calls[j].i = n + 1 - j

\* C17: with boxes shown, box_label is called exactly once per detection,
\* highest original index first, and so is box_FCWS_label when a history
\* value exists.
C17_RendererInvocation ==
    (Done /\ frame.show_boxes) =>
        /\ ReverseOnce(CallSeq("box_label"), Len(frame.dets))
        /\ HISTORY_VLA_pt # None =>
               ReverseOnce(CallSeq("box_FCWS_label"), Len(frame.dets))

\* a frame of the largest size with a history value: both passes run
C17_Witness ==
    /\ Done
    /\ frame.show_boxes
    /\ Len(frame.dets) = MaxDet
    /\ HISTORY_VLA_pt # None
    /\ Len(CallSeq("box_label")) = MaxDet
    /\ Len(CallSeq("box_FCWS_label")) = MaxDet
    /\ CallSeq("box_label")[1].i = MaxDet

\* the history values a call can start from
Histories == {None} \cup {Rect("VLA", v) : v \in Variants}

\* the history values after h in a fixed order, None first: every pair of
\* different values is met from exactly one of its two sides
LaterHistories(h) ==
    IF h = None
    THEN Histories \ {None}
    ELSE {g \in Histories \ {None} : g[1] > h[1]}

OverlayNames == {"vanish_line", "left", "middle", "right", "center_line", "caption"}

\* C18: the same frame plotted from a different history value gives the same
\* vanish line, vanishing point, key points, segments, center line and
\* caption as the call made; and a call that resolves no VLA leaves the
\* history as it was, caption or not.
C18_HistoryDoesNotLeak ==
    Done =>
        /\ \A h \in LaterHistories(histBefore) :
               LET r == LabelPass(frame, h)
               IN /\ OverlayOps(frame, r) = SelectSeq(log, LAMBDA o : o.op \in OverlayNames)
                  /\ VanishPoint(r.Final) = vp
                  /\ VanishLine(r.Final) = vl
                  /\ KeyPoints(r.Final) = ADAS_Key_Points
        /\ Final_pt["VLA"] = Sentinel => HISTORY_VLA_pt = histBefore

\* a frame without VLA plotted on a stale history: its FCW calls exist only
\* because of the history, its corridor and caption are drawn all the same
C18_Witness ==
    /\ Done
    /\ histBefore # None
    /\ Final_pt["VLA"] = Sentinel
    /\ Calls("box_FCWS_label") # {}
    /\ FCWSOps(frame, None, ADAS_Key_Points) = <<>>
    /\ Calls("left") # {}
    /\ Calls("caption") # {}

\* C19: a call with boxes hidden, or on a frame without detections, leaves
\* the history unchanged, calls neither box_label nor box_FCWS_label, resolves
\* every landmark to absent and draws no vanish line, segment or caption.
C19_NothingShown ==
    (Done /\ (~frame.show_boxes \/ Len(frame.dets) = 0)) =>
        /\ HISTORY_VLA_pt = histBefore
        /\ Calls("box_label") = {}
        /\ Calls("box_FCWS_label") = {}
        /\ \A k \in Kinds : Final_pt[k] = Sentinel
        /\ \A name \in {"vanish_line", "left", "middle", "right", "caption"} :
               Calls(name) = {}

\* boxes hidden on a frame whose detection would supply a VLA other than the
\* history value
C19_Witness ==
    /\ Done
    /\ ~frame.show_boxes
    /\ Len(frame.dets) >= 1
    /\ histBefore # None
    /\ frame.dets[1]["VLA"] # Sentinel
    /\ frame.dets[1]["VLA"] # histBefore
    /\ HISTORY_VLA_pt = histBefore

----------------------------------------------------------------------------
(* Boxes.__init__, lines 637-665 *)

\* bounds of the arrays handed to the constructors
MaxWidth == 8
MaxRows == 2

\* isinstance(data, (torch.Tensor, np.ndarray)), line 32
Backings == {"torch", "numpy"}

\* the shapes of the boxes argument: 1-D, 2-D and 3-D arrays
BoxShapes ==
    {<<n>> : n \in 0..MaxWidth}
    \cup {<<r, n>> : r \in 0..MaxRows, n \in 0..MaxWidth}
    \cup {<<1, r, n>> : r \in 0..MaxRows, n \in 0..MaxWidth}

BoxesInputs == [shape : BoxShapes, backing : Backings]

\* lines 639-640: boxes[None, :] when boxes.ndim == 1
Promote(shape) == IF Len(shape) = 1 THEN <<1>> \o shape ELSE shape

\* mutant: any width of at least 6 is accepted
ValidWidthAtLeast(n) == n >= 6

\* line 642: assert n in (6, 7)
ValidWidth(n) == n \in {6, 7}

\* a statement that raised: no object is bound
Raise(error) == [ok |-> FALSE, error |-> error]

\* lines 637-665.  A column selection data[:, c] is the tuple of the selected
\* column numbers, counted from 1: xyxy is columns 1..4, cls the last column,
\* conf the one before, id the one before that when is_track.
Boxes(boxes) ==
    LET shape == Promote(boxes.shape)
        n     == shape[Len(shape)]
    IN IF ~ValidWidth(n)
       THEN Raise("AssertionError")
       ELSE [ok       |-> TRUE,
             shape    |-> shape,
             backing  |-> boxes.backing,
             is_track |-> n = 7,
             xyxy     |-> <<1, 2, 3, 4>>,
             conf     |-> <<n - 1>>,
             cls      |-> <<n>>,
             id       |-> IF n = 7 THEN <<n - 2>> ELSE None]

InitBoxes ==
    /\ PlotInit
    /\ input \in BoxesInputs
    /\ output = None
    /\ cache = None
    /\ computed = None
    /\ objs = <<>>
    /\ last = None

\* Boxes(boxes, orig_shape)
BoxesNew ==
    /\ output = None
    /\ output' = Boxes(input)
    /\ UNCHANGED <<plotVars, input, cache, computed, objs, last>>

NextBoxes == BoxesNew

SpecBoxes == InitBoxes /\ [][NextBoxes]_vars

\* C13: Boxes construction succeeds exactly when the row width is 6 or 7, a
\* 1-D row being promoted to a one-row matrix first; otherwise it raises and
\* no object exists; is_track, and a non-None id, hold exactly for width 7.
C13_BoxesConstruction ==
    output # None =>
        LET n == input.shape[Len(input.shape)]
        IN /\ output.ok <=> n \in {6, 7}
           /\ ~output.ok => DOMAIN output = {"ok", "error"}
           /\ output.ok =>
                  /\ output.is_track <=> n = 7
                  /\ output.id # None <=> n = 7
                  /\ Len(output.shape) >= 2
                  /\ Len(input.shape) = 1 => output.shape = <<1, n>>
                  /\ Len(input.shape) > 1 => output.shape = input.shape

\* a 1-D row of width 7: promoted, constructed, tracked
C13_Witness ==
    /\ output # None
    /\ Len(input.shape) = 1
    /\ output.ok
    /\ output.is_track
    /\ output.id = <<5>>
    /\ output.shape = <<1, 7>>

----------------------------------------------------------------------------
(* Keypoints.__init__, lines 746-755 *)

\* keypoints per detection
MaxKpt == 2

\* confidences are in tenths: 0.4, 0.5 and 0.6
ConfLevels == {4, 5, 6}

\* line 752: the 0.5 of "keypoints[..., 2] < 0.5", in tenths
ConfVisible == 5

\* keypoint j of detection i before masking: distinct non-zero coordinates
KeypointXY(i, j) == <<10 * i + j, 20 * i + j>>

\* the (k, C) arrays of detection i, C = 2 (x, y) or C = 3 (x, y, conf)
KeypointRows(i, k) ==
    {[j \in 1..k |-> KeypointXY(i, j)]}
    \cup {[j \in 1..k |-> KeypointXY(i, j) \o <<c[j]>>] : c \in [1..k -> ConfLevels]}

\* the (n, k, C) arrays: every detection has the same k and the same C
KeypointArrays(n, k) ==
    {[i \in 1..n |-> [j \in 1..k |-> KeypointXY(i, j)]]}
    \cup {[i \in 1..n |-> [j \in 1..k |-> KeypointXY(i, j) \o <<c[(i - 1) * k + j]>>]] :
            c \in [1..(n * k) -> ConfLevels]}

\* mutant: a confidence of exactly 0.5 counts as not visible
NotVisibleAtMost(c) == c <= ConfVisible

\* line 752: mask = keypoints[..., 2] < 0.5
NotVisible(c) == c < ConfVisible

\* lines 746-755
Keypoints(keypoints) ==
    LET kpts == IF keypoints.ndim = 2 THEN <<keypoints.data>> ELSE keypoints.data
        C    == Len(kpts[1][1])
        data == IF C = 3
                THEN [i \in 1..Len(kpts) |->
                        [j \in 1..Len(kpts[i]) |->
                            IF NotVisible(kpts[i][j][3])
                            THEN <<0, 0, kpts[i][j][3]>>
                            ELSE kpts[i][j]]]
                ELSE kpts
    IN [ok |-> TRUE, data |-> data, has_visible |-> C = 3]

InitKeypoints ==
    /\ PlotInit
    /\ \E k \in 1..MaxKpt :
           \/ \E row \in KeypointRows(1, k) : input = [ndim |-> 2, data |-> row]
           \/ \E n \in 1..MaxRows : \E a \in KeypointArrays(n, k) :
                  input = [ndim |-> 3, data |-> a]
    /\ output = None
    /\ cache = None
    /\ computed = None
    /\ objs = <<>>
    /\ last = None

\* Keypoints(keypoints, orig_shape)
KeypointsNew ==
    /\ output = None
    /\ output' = Keypoints(input)
    /\ UNCHANGED <<plotVars, input, cache, computed, objs, last>>

NextKeypoints == KeypointsNew

SpecKeypoints == InitKeypoints /\ [][NextKeypoints]_vars

\* the argument as an (n, k, C) array
GivenKeypoints == IF input.ndim = 2 THEN <<input.data>> ELSE input.data

\* C15: with a confidence channel, every keypoint of confidence below 0.5
\* has x and y set to 0 and every keypoint of confidence at least 0.5 keeps
\* its x and y; without the channel nothing changes and has_visible is false.
C15_VisibilityMasking ==
    output # None =>
        /\ Len(output.data) = Len(GivenKeypoints)
        /\ \A i \in 1..Len(GivenKeypoints) :
               /\ Len(output.data[i]) = Len(GivenKeypoints[i])
               /\ \A j \in 1..Len(GivenKeypoints[i]) :
                      LET p == GivenKeypoints[i][j]
                          q == output.data[i][j]
                      IN IF Len(p) = 3
                         THEN /\ output.has_visible
                              /\ q[3] = p[3]
                              /\ p[3] < 5 => (q[1] = 0 /\ q[2] = 0)
                              /\ p[3] >= 5 => (q[1] = p[1] /\ q[2] = p[2])
                         ELSE /\ ~output.has_visible
                              /\ q = p

\* a 2-D array promoted to one detection, with a keypoint of confidence
\* exactly 0.5 kept next to one of confidence 0.4 zeroed
C15_Witness ==
    /\ output # None
    /\ input.ndim = 2
    /\ output.has_visible
    /\ \E j \in 1..Len(input.data) : \E l \in 1..Len(input.data) :
           /\ input.data[j][3] = 5
           /\ output.data[1][j] = input.data[j]
           /\ input.data[l][3] = 4
           /\ output.data[1][l] = <<0, 0, 4>>
           /\ input.data[l][1] # 0

----------------------------------------------------------------------------
(* Probs.top5, lines 806-810 *)

\* classes of a probability vector
MaxClasses == 6

\* the probabilities of a vector, as ranks
ProbLevels == {1, 2, 3}

\* line 810: the 5 of "[:5]"
TopK == 5

ProbsInputs == UNION {[1..n -> ProbLevels] : n \in 0..MaxClasses}

\* mutant: argsort of data, not of -data
FirstsAscending(data, S) == {i \in S : \A j \in S : data[i] <= data[j]}

\* the indices of S that a sort of -data may put first: numpy's and torch's
\* default argsort are not stable, equal keys come out in any order
Firsts(data, S) == {i \in S : \A j \in S : data[i] >= data[j]}

RECURSIVE ArgsortOf(_, _)
ArgsortOf(data, S) ==
    IF S = {}
    THEN {<<>>}
    ELSE UNION {{<<i>> \o t : t \in ArgsortOf(data, S \ {i})} : i \in Firsts(data, S)}

\* (-self.data).argsort(0): every order the sort may return
Argsort(data) == ArgsortOf(data, 1..Len(data))

\* s[:k]
Slice(s, k) == SubSeq(s, 1, IF Len(s) < k THEN Len(s) ELSE k)

InitProbs ==
    /\ PlotInit
    /\ input \in ProbsInputs
    /\ output = None
    /\ cache = None
    /\ computed = None
    /\ objs = <<>>
    /\ last = None

\* Probs(probs).top5; the result is a list, held here in a record
Top5 ==
    /\ output = None
    /\ \E order \in Argsort(input) :
           output' = [top5 |-> Slice(order, TopK)]
    /\ UNCHANGED <<plotVars, input, cache, computed, objs, last>>

NextProbs == Top5

SpecProbs == InitProbs /\ [][NextProbs]_vars

\* C16 as amended: top5 has length min(5, n), lists distinct indices in
\* non-increasing probability order, and no index left out has a probability
\* higher than one listed.
C16_Top5NonIncreasing ==
    output # None =>
        LET t == output.top5
        IN /\ Len(t) = (IF Len(input) < 5 THEN Len(input) ELSE 5)
           /\ \A j \in 1..Len(t) : t[j] \in 1..Len(input)
           /\ \A j \in 1..Len(t) : \A l \in 1..Len(t) : j # l => t[j] # t[l]
           /\ \A j \in 1..Len(t) : \A l \in 1..Len(t) :
                  j < l => input[t[j]] >= input[t[l]]
           /\ \A i \in 1..Len(input) :
                  (\A j \in 1..Len(t) : t[j] # i) =>
                      \A j \in 1..Len(t) : input[i] <= input[t[j]]

\* C16: top5 has length min(5, n), lists distinct indices in strictly
\* descending probability order, and no index left out has a probability
\* higher than one listed.
C16_Top5Strict ==
    output # None =>
        LET t == output.top5
        IN /\ Len(t) = (IF Len(input) < 5 THEN Len(input) ELSE 5)
           /\ \A j \in 1..Len(t) : \A l \in 1..Len(t) : j # l => t[j] # t[l]
           /\ \A j \in 1..Len(t) : \A l \in 1..Len(t) :
                  j < l => input[t[j]] > input[t[l]]
           /\ \A i \in 1..Len(input) :
                  (\A j \in 1..Len(t) : t[j] # i) =>
                      \A j \in 1..Len(t) : input[i] <= input[t[j]]

\* more than five classes, two of the listed ones tied and returned with the
\* higher index first, one left out that is strictly lower
C16_Witness ==
    /\ output # None
    /\ Len(input) > 5
    /\ Len(output.top5) = 5
    /\ \E j \in 1..4 :
           /\ input[output.top5[j]] = input[output.top5[j + 1]]
           /\ output.top5[j] > output.top5[j + 1]
    /\ input[output.top5[1]] > input[output.top5[5]]
    /\ \E i \in 1..Len(input) :
           /\ \A j \in 1..5 : output.top5[j] # i
           /\ input[i] < input[output.top5[5]]

----------------------------------------------------------------------------
(* The derived fields of Boxes, Masks, Keypoints and Probs, lines 647-822 *)

\* live instances of the class that owns the field
NumInst == 3

Instances == 1..NumInst

\* plain properties: the body runs on every access (lines 647-665)
PlainFields == {"Boxes.xyxy", "Boxes.conf", "Boxes.cls", "Boxes.id"}

\* @property over @lru_cache(maxsize=2) (lines 667-689)
CachedTwo == {"Boxes.xywh", "Boxes.xyxyn", "Boxes.xywhn"}

\* @property over @lru_cache(maxsize=1) (lines 713-727, 757-776, 800-822)
CachedOne == {"Masks.xyn", "Masks.xy", "Keypoints.xy", "Keypoints.xyn",
              "Keypoints.conf", "Probs.top1", "Probs.top5", "Probs.top1conf",
              "Probs.top5conf"}

DerivedFields == PlainFields \cup CachedTwo \cup CachedOne

\* the maxsize of the field's lru_cache; 0 for a plain property.  The cache
\* belongs to the function object of the class, keyed by self: one cache for
\* all instances.
Maxsize(field) ==
    IF field \in CachedTwo THEN 2 ELSE IF field \in CachedOne THEN 1 ELSE 0

\* how often the body of the field ran for an instance
Times == {"never", "once", "again"}

Bump(t) == IF t = "never" THEN "once" ELSE "again"

Range(s) == {s[j] : j \in 1..Len(s)}

\* the sequence without the instance
Without(s, inst) == SelectSeq(s, LAMBDA e : e # inst)

\* functools.lru_cache: a new key goes in as the most recent one and pushes
\* out the least recent one when the cache is full
Insert(s, inst, maxsize) ==
    IF maxsize = 0
    THEN s
    ELSE IF Len(s) < maxsize THEN Append(s, inst) ELSE Append(Tail(s), inst)

\* one field is studied at a time: the caches of different fields are
\* different lru_cache objects
InitCache ==
    /\ PlotInit
    /\ input \in DerivedFields
    /\ output = None
    /\ cache = <<>>
    /\ computed = [inst \in Instances |-> "never"]
    /\ objs = <<>>
    /\ last = None

\* inst.<field>: a hit makes the key the most recent one; a miss runs the body
Access(inst) ==
    /\ IF inst \in Range(cache)
       THEN /\ cache' = Append(Without(cache, inst), inst)
            /\ UNCHANGED computed
       ELSE /\ cache' = Insert(cache, inst, Maxsize(input))
            /\ computed' = [computed EXCEPT ![inst] = Bump(@)]
    /\ UNCHANGED <<plotVars, input, output, objs, last>>

NextCache == \E inst \in Instances : Access(inst)

SpecCache == InitCache /\ [][NextCache]_vars

\* C11: each derived field of an instance is computed at most once, on its
\* first access, and the value stays cached whatever is accessed on other
\* instances.
C11_ComputedOnce ==
    \A inst \in Instances :
        /\ computed[inst] # "again"
        /\ computed[inst] = "once" => inst \in Range(cache)

----------------------------------------------------------------------------
(* BaseTensor, lines 24-64 *)

\* BaseTensor instances alive at once
MaxObjs == 3

OrigShapes == {<<480, 640>>, <<720, 1280>>}

\* an instance: what backs self.data, where it lives, which rows of the
\* constructed array it holds, and self.orig_shape
Tensor(backing, device, rows, orig_shape) ==
    [backing |-> backing, device |-> device, rows |-> rows, orig_shape |-> orig_shape]

TransferOps == {"cpu", "numpy", "cuda", "to_cpu", "to_cuda", "getitem"}

\* self.__class__(data, self.orig_shape)
New(backing, device, rows, orig_shape) ==
    [ret |-> "new", obj |-> Tensor(backing, device, rows, orig_shape)]

\* lines 42-64: ret is "self" when the method returns the receiver, "raise"
\* when the call raises, "new" when it returns a newly built instance
Transfer(t, op) ==
    CASE op = "cpu" ->
            IF t.backing = "numpy"
            THEN [ret |-> "self"]
            ELSE New("torch", "cpu", t.rows, t.orig_shape)
      [] op = "numpy" ->
            IF t.backing = "numpy"
            THEN [ret |-> "self"]
            ELSE IF t.device = "cuda"
                 THEN [ret |-> "raise"]
                 ELSE New("numpy", "cpu", t.rows, t.orig_shape)
      [] op = "cuda" -> New("torch", "cuda", t.rows, t.orig_shape)
      [] op = "to_cpu" -> New("torch", "cpu", t.rows, t.orig_shape)
      [] op = "to_cuda" -> New("torch", "cuda", t.rows, t.orig_shape)
      [] op = "getitem" -> New(t.backing, t.device, "some", t.orig_shape)

InitTensor ==
    /\ PlotInit
    /\ input = None
    /\ output = None
    /\ cache = None
    /\ computed = None
    /\ \E backing \in Backings : \E shape \in OrigShapes :
           objs = <<Tensor(backing, "cpu", "all", shape)>>
    /\ last = None

\* objs[recv].<op>(): the result is the receiver, a new instance, or nothing
Call(recv, op) ==
    LET res == Transfer(objs[recv], op)
    IN IF res.ret = "self"
       THEN /\ last' = [recv |-> recv, op |-> op, ret |-> recv, was |-> objs[recv]]
            /\ UNCHANGED objs
       ELSE IF res.ret = "raise"
       THEN /\ last' = [recv |-> recv, op |-> op, ret |-> 0, was |-> objs[recv]]
            /\ UNCHANGED objs
       ELSE /\ Len(objs) < MaxObjs
            /\ objs' = Append(objs, res.obj)
            /\ last' = [recv |-> recv, op |-> op, ret |-> Len(objs) + 1, was |-> objs[recv]]

TransferCall ==
    /\ \E recv \in 1..Len(objs) : \E op \in TransferOps : Call(recv, op)
    /\ UNCHANGED <<plotVars, input, output, cache, computed>>

NextTensor == TransferCall

SpecTensor == InitTensor /\ [][NextTensor]_vars

\* C12: a transfer operation that returns, returns an instance other than
\* the receiver, with the receiver's orig_shape, and leaves the receiver as
\* it was.
C12_TransferReturnsNew ==
    (last # None /\ last.ret # 0) =>
        /\ last.ret # last.recv
        /\ objs[last.ret].orig_shape = last.was.orig_shape
        /\ objs[last.recv] = last.was

====
